---- MODULE Spec2Model ----
(***************************************************************************)
(* Adaptive multi-signal fusion engine of the Nifty trading platform:      *)
(*   - PerformanceTracker (backend/services/performanceTracker.js):        *)
(*     prediction buffer, delayed validation, weight adaptation;           *)
(*   - MarketSentimentAgent.analyze / enhancedCombineAnalysis              *)
(*     (backend/agents/marketSentiment.js): the fusion cycle;              *)
(*   - AgentOrchestrator.aggregateSignals (services/agentOrchestrator.js). *)
(*                                                                         *)
(* Numbers.  JavaScript numbers are modelled by scaled integers:           *)
(*   weights            in hundredths            (0.6  -> 60)              *)
(*   confidence/accuracy of the tracker in 1/Scale   (85 -> 85 * Scale)    *)
(*   price moves        in hundredths of a percent (1.5% -> 150)           *)
(* Binary floating-point rounding error is not modelled.                   *)
(***************************************************************************)
EXTENDS Integers, Sequences, FiniteSets, TLC

(***************************************************************************)
(* Bounds of the model.                                                    *)
(***************************************************************************)
\* number of predictions ever created in one run
MaxIds == 2
\* capacity of the rolling buffers (this.maxPredictions, 500 in the source)
maxPredictions == 1
\* direct validatePrediction calls made besides the timers
MaxDirect == 1
\* outcomes fed to adjustModelWeights in SpecWeights
MaxOutcomes == 12

\* analyzers that never respond during one runAnalysis
MaxSilent == 1

\* cycles replayed in SpecReplay
MaxCycles == 3
\* historical data points loaded when analyzeHistoricalPatterns runs
MaxSamples == 2
\* suggestions logged by the TradingLogger
MaxSuggestions == 2
\* checkSuggestionOutcomes runs that can be in progress at once
MaxRuns == 2
\* manual recordOutcome requests
MaxManual == 1

Scale == 100 * 1000

Max(a, b) == IF a >= b THEN a ELSE b
Min(a, b) == IF a <= b THEN a ELSE b
Abs(x) == IF x < 0 THEN 0 - x ELSE x

\* Array.prototype.slice(0, n)
FirstN(s, n) == IF Len(s) > n THEN SubSeq(s, 1, n) ELSE s

\* Array.prototype.slice(-n)
LastN(s, n) == IF Len(s) > n THEN SubSeq(s, Len(s) - n + 1, Len(s)) ELSE s

\* Math.round(num / den) for num >= 0, den > 0
RoundDiv(num, den) == (2 * num + den) \div (2 * den)

(***************************************************************************)
(* AgentOrchestrator.aggregateSignals                                      *)
(***************************************************************************)
\* this.agentWeights with a technical weight above the 0.4 threshold
agentWeightsTopHeavy == [technical |-> 45, sentiment |-> 25, research |-> 25, risk |-> 5]

\* this.agentWeights, in hundredths
agentWeights == [technical |-> 35, sentiment |-> 25, research |-> 25, risk |-> 15]

VotingAgents == <<"technical", "sentiment", "research", "risk">>

\* result.confidence || 50
ConfOr50(c) == IF c = 0 THEN 50 ELSE c

\* "if (result.signal && agentType !== 'risk')": does this agent vote?
VotesCountingRisk(results, agentType) == results[agentType].signal # "NONE"

Votes(results, agentType) ==
    results[agentType].signal # "NONE" /\ agentType # "risk"

\* the bucket a voting signal is added to
Bucket(signal) ==
    IF signal = "BUY" \/ signal = "APPROVE_TRADE" THEN "BUY"
    ELSE IF signal = "SELL" THEN "SELL" ELSE "HOLD"

\* weight * confidence of one agent, in 1/10000
WeightedScore(results, agentType) ==
    agentWeights[agentType] * ConfOr50(results[agentType].confidence)

RECURSIVE SumScores(_, _, _)
SumScores(results, bucket, k) ==
    IF k = 0 THEN 0
    ELSE SumScores(results, bucket, k - 1)
         + (IF Votes(results, VotingAgents[k])
               /\ Bucket(results[VotingAgents[k]].signal) = bucket
            THEN WeightedScore(results, VotingAgents[k]) ELSE 0)

RECURSIVE TotalConfidence(_, _)
TotalConfidence(results, k) ==
    IF k = 0 THEN 0
    ELSE TotalConfidence(results, k - 1)
         + (IF Votes(results, VotingAgents[k])
            THEN ConfOr50(results[VotingAgents[k]].confidence) ELSE 0)

RECURSIVE ValidAgents(_, _)
ValidAgents(results, k) ==
    IF k = 0 THEN 0
    ELSE ValidAgents(results, k - 1)
         + (IF Votes(results, VotingAgents[k]) THEN 1 ELSE 0)

\* riskModifier, in tenths
RiskModifierSwapped(riskSignal) ==
    IF riskSignal = "AVOID_TRADE" THEN 7
    ELSE IF riskSignal = "CAUTIOUS_TRADE" THEN 3 ELSE 10

RiskModifier(riskSignal) ==
    IF riskSignal = "AVOID_TRADE" THEN 3
    ELSE IF riskSignal = "CAUTIOUS_TRADE" THEN 7 ELSE 10

\* "Determine final signal": scores in 1/10000, threshold 0.4
FinalActionSwapped(buy, sell, hold) ==
    IF Max(Max(buy, sell), hold) = buy /\ buy > 4000 THEN "SELL"
    ELSE IF Max(Max(buy, sell), hold) = sell /\ sell > 4000 THEN "BUY"
    ELSE "HOLD"

FinalAction(buy, sell, hold) ==
    IF Max(Max(buy, sell), hold) = buy /\ buy > 4000 THEN "BUY"
    ELSE IF Max(Max(buy, sell), hold) = sell /\ sell > 4000 THEN "SELL"
    ELSE "HOLD"

\* Math.max(20, Math.min(95, adjustedConfidence))
FinalConfidenceUnclamped(adjustedConfidence) == adjustedConfidence

FinalConfidence(adjustedConfidence) == Max(20, Min(95, adjustedConfidence))

\* Math.round(baseConfidence * riskModifier) for baseConfidence = total / valid:
\* the double products 45 * 0.7 and 85 * 0.7 lie just below 31.5 and 59.5 and
\* round down; every other tie rounds up
MathRoundDerated(total, valid, rm) ==
    IF rm = 7 /\ (total = 45 * valid \/ total = 85 * valid)
    THEN (total * rm) \div (valid * 10)
    ELSE RoundDiv(total * rm, valid * 10)

aggregateSignals(results) ==
    LET buy   == SumScores(results, "BUY", 4)
        sell  == SumScores(results, "SELL", 4)
        hold  == SumScores(results, "HOLD", 4)
        valid == ValidAgents(results, 4)
        total == TotalConfidence(results, 4)
        rm    == RiskModifier(results.risk.signal)
        \* Math.round(baseConfidence * riskModifier)
        adjusted == IF valid > 0 THEN MathRoundDerated(total, valid, rm)
                    ELSE MathRoundDerated(50, 1, rm)
    IN  [action         |-> FinalAction(buy, sell, hold),
         confidence     |-> FinalConfidence(adjusted),
         signalStrength |-> [BUY  |-> RoundDiv(buy, 100),
                             SELL |-> RoundDiv(sell, 100),
                             HOLD |-> RoundDiv(hold, 100)],
         riskAdjustment |-> (10 - rm) * 10]

(***************************************************************************)
(* HistoricalAnalysis: the fields of a historical-pattern result that the  *)
(* fusion reads (services/historicalAnalysis.js)                           *)
(***************************************************************************)
calculateHistoricalConfidence(accuracy) ==
    IF accuracy >= 80 THEN "HIGH" ELSE IF accuracy >= 60 THEN "MEDIUM" ELSE "LOW"

\* in tenths
calculateConfidenceAdjustment(accuracy) ==
    IF accuracy >= 80 THEN 12
    ELSE IF accuracy >= 60 THEN 10
    ELSE IF accuracy >= 40 THEN 8 ELSE 6

\* the object analyzeHistoricalPatterns returns on its normal path;
\* avgOutcome in hundredths of a percent
HistoricalResult(accuracy, pattern, avgOutcome) ==
    [accuracy             |-> accuracy,
     confidence           |-> calculateHistoricalConfidence(accuracy),
     confidenceAdjustment |-> calculateConfidenceAdjustment(accuracy),
     dominantPattern      |-> pattern,
     avgOutcome           |-> avgOutcome]

getFallbackHistoricalAnalysis ==
    [accuracy             |-> 50,
     confidence           |-> "MEDIUM",
     confidenceAdjustment |-> 10,
     dominantPattern      |-> "INSUFFICIENT_DATA",
     avgOutcome           |-> 0]

\* one comparison of findSimilarConditions per field; volatility, momentum
\* and volume ratio in hundredths (volume is kept as volume / 50000000)
findSimilarConditions(historicalData, current) ==
    SelectSeq(historicalData, LAMBDA point :
        /\ Abs(point.volatility - current.volatility) < 50
        /\ Abs(point.momentum - current.momentum) < 30
        /\ Abs(point.volume - current.volumeRatio) < 30
        /\ Abs(point.hour - current.hour) <= 1)

\* number of matched samples with the given signal
SignalCount(similarConditions, signal) ==
    Len(SelectSeq(similarConditions, LAMBDA c : c.signal = signal))

\* actualOutcome in hundredths of a percent
calculatePatternAccuracy(similarConditions) ==
    IF Len(similarConditions) = 0 THEN 50
    ELSE LET correctPredictions ==
                 SelectSeq(similarConditions, LAMBDA c :
                     \/ c.signal = "BUY" /\ c.actualOutcome > 0
                     \/ c.signal = "SELL" /\ c.actualOutcome < 0
                     \/ c.signal = "HOLD" /\ Abs(c.actualOutcome) < 10)
         IN  RoundDiv(Len(correctPredictions) * 100, Len(similarConditions))

RECURSIVE SumOutcome(_)
SumOutcome(similarConditions) ==
    IF similarConditions = <<>> THEN 0
    ELSE Head(similarConditions).actualOutcome + SumOutcome(Tail(similarConditions))

RECURSIVE SumAbsOutcome(_)
SumAbsOutcome(similarConditions) ==
    IF similarConditions = <<>> THEN 0
    ELSE Abs(Head(similarConditions).actualOutcome)
         + SumAbsOutcome(Tail(similarConditions))

\* to the nearest hundredth of a percent
calculateAvgOutcome(similarConditions) ==
    IF Len(similarConditions) = 0 THEN 0
    ELSE RoundDiv(SumOutcome(similarConditions), Len(similarConditions))

identifyDominantPattern(similarConditions) ==
    IF Len(similarConditions) = 0 THEN "INSUFFICIENT_DATA"
    ELSE LET buyCount  == SignalCount(similarConditions, "BUY")
             sellCount == SignalCount(similarConditions, "SELL")
             holdCount == SignalCount(similarConditions, "HOLD")
             max       == Max(buyCount, Max(sellCount, holdCount))
         IN  IF max = buyCount THEN "BULLISH_PATTERN"
             ELSE IF max = sellCount THEN "BEARISH_PATTERN"
             ELSE "NEUTRAL_PATTERN"

\* in tenths
calculateRiskAdjustment(similarConditions) ==
    IF Len(similarConditions) = 0 THEN 10
    ELSE IF SumAbsOutcome(similarConditions) > 50 * Len(similarConditions) THEN 13
    ELSE IF SumAbsOutcome(similarConditions) > 30 * Len(similarConditions) THEN 11
    ELSE 10

\* analyzeHistoricalPatterns on the loaded data; reading a field of an
\* undefined currentData throws inside findSimilarConditions and the catch
\* returns the fallback
analyzeHistoricalPatterns(historicalData, currentData) ==
    IF ~currentData.defined
    THEN getFallbackHistoricalAnalysis
         @@ [similarCount |-> 0, riskAdjustment |-> 10]
    ELSE LET similarConditions == findSimilarConditions(historicalData, currentData)
         IN  HistoricalResult(calculatePatternAccuracy(similarConditions),
                              identifyDominantPattern(similarConditions),
                              calculateAvgOutcome(similarConditions))
             @@ [similarCount   |-> Len(similarConditions),
                 riskAdjustment |-> calculateRiskAdjustment(similarConditions)]

(***************************************************************************)
(* MarketSentimentAgent.enhancedCombineAnalysis                            *)
(***************************************************************************)
\* signalScores[signal] || 0, in tenths
SignalScore(signal) ==
    IF signal = "BUY" THEN 10 ELSE IF signal = "SELL" THEN 0 - 10 ELSE 0

\* in tenths
getHistoricalSignalScore(historical) ==
    IF historical.dominantPattern = "BULLISH_PATTERN" THEN 8
    ELSE IF historical.dominantPattern = "BEARISH_PATTERN" THEN 0 - 8 ELSE 0

\* in tenths
getMicrostructureSignalScore(micro) ==
    LET flow == IF micro.orderFlowBias = "BULLISH" THEN 6
                ELSE IF micro.orderFlowBias = "BEARISH" THEN 0 - 6 ELSE 0
        inst == IF micro.institutionalSentiment = "BULLISH" THEN 4
                ELSE IF micro.institutionalSentiment = "BEARISH" THEN 0 - 4 ELSE 0
    IN  Max(0 - 10, Min(10, flow + inst))

getMicrostructureConfidence(micro) ==
    LET liq   == IF micro.liquidityRisk = "LOW" THEN 15
                 ELSE IF micro.liquidityRisk = "HIGH" THEN 0 - 15 ELSE 0
        depth == IF micro.depthQuality = "EXCELLENT" THEN 10
                 ELSE IF micro.depthQuality = "POOR" THEN 0 - 10 ELSE 0
    IN  Max(20, Min(80, 50 + liq + depth))

\* the weights read from optimalWeights, in hundredths:
\* ai, technical, historical || 0.2, and the fixed microWeight 0.15
RawWeights(optimalWeights) ==
    [ai          |-> optimalWeights.ai,
     traditional |-> optimalWeights.technical,
     historical  |-> IF optimalWeights.historical = 0 THEN 20
                     ELSE optimalWeights.historical,
     micro       |-> 15]

\* "Market condition adjustments": the factor applied to each normalised
\* weight, in 1/10000
RegimeFactor(volatilityHigh, hour) ==
    LET openClose == hour = 9 \/ hour >= 15
    IN  [ai          |-> (IF volatilityHigh THEN 90 ELSE 100)
                         * (IF openClose THEN 120 ELSE 100),
         traditional |-> 100 * 100,
         historical  |-> (IF volatilityHigh THEN 130 ELSE 100) * 100,
         micro       |-> 100 * (IF openClose THEN 140 ELSE 100)]

\* confidenceMultiplier, in 1/100000
ConfidenceMultiplier(historical, micro) ==
    (IF historical.confidenceAdjustment = 0 THEN 10
     ELSE historical.confidenceAdjustment)
    * (IF historical.accuracy > 80 THEN 11 ELSE 10)
    * (IF historical.accuracy < 50 THEN 9 ELSE 10)
    * (IF micro.liquidityRisk = "HIGH" THEN 8 ELSE 10)
    * (IF micro.orderFlowBias # "NEUTRAL" THEN 11 ELSE 10)

\* Math.min(95, Math.max(20, rawConfidence * confidenceMultiplier)), in 1/Scale
EnhancedFinalConfidenceUnclamped(rawConfidence, multiplier) ==
    rawConfidence * multiplier

EnhancedFinalConfidence(rawConfidence, multiplier) ==
    Min(95 * Scale, Max(20 * Scale, rawConfidence * multiplier))

\* in thousandths of a percent
calculateExpectedMove(historical, micro, signal) ==
    LET base     == IF signal = "BUY" THEN 300
                    ELSE IF signal = "SELL" THEN 0 - 300 ELSE 0
        adjusted == IF historical.avgOutcome # 0 /\ Abs(historical.avgOutcome) > 10
                    THEN historical.avgOutcome * 7 ELSE base
    IN  IF micro.flowImbalanceHigh THEN (adjusted * 12) \div 10 ELSE adjusted

enhancedCombineAnalysis(traditional, ai, historical, micro, optimalWeights) ==
    LET w      == RawWeights(optimalWeights)
        total  == w.ai + w.traditional + w.historical + w.micro
        f      == RegimeFactor(traditional.volatilityHigh, traditional.hour)
        \* effective weight of a source = w * f / (total * 10000)
        tScore == SignalScore(traditional.signal)
        aScore == SignalScore(ai.tradingSignal)
        hScore == getHistoricalSignalScore(historical)
        mScore == getMicrostructureSignalScore(micro)
        \* combinedScore * 10 * total * 10000
        score  == tScore * w.traditional * f.traditional
                  + aScore * w.ai * f.ai
                  + hScore * w.historical * f.historical
                  + mScore * w.micro * f.micro
        \* combinedScore > 0.25, combinedScore < -0.25
        signal == IF 4 * score > total * 100000 THEN "BUY"
                  ELSE IF 4 * score < 0 - total * 100000 THEN "SELL"
                  ELSE "HOLD"
        hConf  == IF historical.confidence = "HIGH" THEN 80
                  ELSE IF historical.confidence = "MEDIUM" THEN 60 ELSE 40
        raw    == RoundDiv(ConfOr50(traditional.confidence) * w.traditional * f.traditional
                           + ai.confidence * w.ai * f.ai
                           + hConf * w.historical * f.historical
                           + getMicrostructureConfidence(micro) * w.micro * f.micro,
                           total * 10000)
    IN  [signal       |-> signal,
         confidence   |-> EnhancedFinalConfidence(raw, ConfidenceMultiplier(historical, micro)),
         expectedMove |-> calculateExpectedMove(historical, micro, signal)]

(***************************************************************************)
(* PerformanceTracker: pure parts                                          *)
(***************************************************************************)
\* JavaScript null in the numeric fields actualOutcome and accuracy
Null == 0 - 999999

\* this.accuracyThresholds
excellent == 80
poor == 45

\* the constructor's this.modelWeights, in hundredths
DefaultWeights == [ai |-> 60, technical |-> 40, historical |-> 0]

\* confidence and baseAccuracy in 1/Scale; result in 1/Scale
calculateConfidenceAccuracy(confidence, baseAccuracy) ==
    LET confidenceError == Abs(confidence - baseAccuracy)
    IN  IF confidenceError < 10 * Scale THEN 100 * Scale
        ELSE IF confidenceError < 20 * Scale THEN 80 * Scale
        ELSE IF confidenceError < 30 * Scale THEN 60 * Scale
        ELSE 40 * Scale

\* actualMove in hundredths of a percent; confidence and result in 1/Scale
calculateAccuracy(signal, actualMove, confidence) ==
    LET baseAccuracy ==
            IF signal = "BUY" /\ actualMove > 0
            THEN Min(100 * Scale, 70 * Scale + actualMove * (Scale \div 10))
            ELSE IF signal = "SELL" /\ actualMove < 0
            THEN Min(100 * Scale, 70 * Scale + Abs(actualMove) * (Scale \div 10))
            ELSE IF signal = "HOLD" /\ Abs(actualMove) < 20 THEN 80 * Scale
            ELSE IF signal = "HOLD" /\ Abs(actualMove) < 50 THEN 60 * Scale
            ELSE Max(0, 30 * Scale - Abs(actualMove) * (Scale \div 20))
    IN  Max(0, Min(100 * Scale,
            (baseAccuracy + calculateConfidenceAccuracy(confidence, baseAccuracy)) \div 2))

\* ((actualPrice - targetPrice) / targetPrice) * 100, in hundredths of a percent
ActualMove(actualPrice, targetPrice) ==
    ((actualPrice - targetPrice) * 10000) \div targetPrice

RECURSIVE SumAccuracy(_, _)
SumAccuracy(heap, ids) ==
    IF ids = <<>> THEN 0
    ELSE heap[Head(ids)].accuracy + SumAccuracy(heap, Tail(ids))

\* getRecentAccuracy(count).overall as the pair <<total, n>>: the validated
\* predictions of the buffer, the last `count` of them; n = 0 is "no data"
getRecentAccuracy(buffer, heap, count) ==
    LET recent == LastN(SelectSeq(buffer, LAMBDA i : heap[i].actualOutcome # Null), count)
    IN  [total |-> SumAccuracy(heap, recent), count |-> Len(recent)]

\* accuracy > recentAccuracy.overall
AboveRecent(accuracy, recent) ==
    IF recent.count = 0 THEN accuracy > 50 * Scale
    ELSE accuracy * recent.count > recent.total

\* adjustModelWeights clamping the AI weight only
adjustModelWeightsOneSided(weights, prediction, recent) ==
    IF prediction.accuracy > excellent * Scale
    THEN IF prediction.agentData.aiWeight > prediction.agentData.traditionalWeight
            /\ AboveRecent(prediction.accuracy, recent)
         THEN [weights EXCEPT !.ai = Min(80, weights.ai + 2),
                              !.technical = weights.technical - 2]
         ELSE weights
    ELSE IF prediction.accuracy < poor * Scale
    THEN IF prediction.agentData.aiWeight > prediction.agentData.traditionalWeight
         THEN [weights EXCEPT !.ai = Max(30, weights.ai - 3),
                              !.technical = weights.technical + 3]
         ELSE weights
    ELSE weights

\* adjustModelWeights without the clamps
adjustModelWeightsUnclamped(weights, prediction, recent) ==
    IF prediction.accuracy > excellent * Scale
    THEN IF prediction.agentData.aiWeight > prediction.agentData.traditionalWeight
            /\ AboveRecent(prediction.accuracy, recent)
         THEN [weights EXCEPT !.ai = weights.ai + 2,
                              !.technical = weights.technical - 2]
         ELSE weights
    ELSE IF prediction.accuracy < poor * Scale
    THEN IF prediction.agentData.aiWeight > prediction.agentData.traditionalWeight
         THEN [weights EXCEPT !.ai = weights.ai - 3,
                              !.technical = weights.technical + 3]
         ELSE weights
    ELSE weights

\* the new value of this.modelWeights
adjustModelWeights(weights, prediction, recent) ==
    IF prediction.accuracy > excellent * Scale
    THEN IF prediction.agentData.aiWeight > prediction.agentData.traditionalWeight
            /\ AboveRecent(prediction.accuracy, recent)
         THEN [weights EXCEPT !.ai = Min(80, weights.ai + 2),
                              !.technical = Max(20, weights.technical - 2)]
         ELSE weights
    ELSE IF prediction.accuracy < poor * Scale
    THEN IF prediction.agentData.aiWeight > prediction.agentData.traditionalWeight
         THEN [weights EXCEPT !.ai = Max(30, weights.ai - 3),
                              !.technical = Min(70, weights.technical + 3)]
         ELSE weights
    ELSE weights

\* getOptimalWeights returns this.modelWeights itself
getOptimalWeights(weights) == weights

\* the ranges of calculateConfidenceCalibration, as <<min, max>>
ConfidenceRanges == {<<80, 100>>, <<60, 79>>, <<40, 59>>, <<20, 39>>}

\* the count field of each range: the predictions handed in whose
\* confidence (in 1/Scale) is within min and max
calculateConfidenceCalibration(validPredictions, heap) ==
    [r \in ConfidenceRanges |->
        Cardinality({k \in 1..Len(validPredictions) :
            /\ heap[validPredictions[k]].confidence >= r[1] * Scale
            /\ heap[validPredictions[k]].confidence <= r[2] * Scale})]

\* getPerformanceStats counting every prediction of the buffer
getPerformanceStatsOfAll(buffer, heap, weights) ==
    [totalPredictions      |-> Len(buffer),
     overallAccuracy       |-> 50 * Scale,
     modelWeights          |-> weights,
     confidenceCalibration |-> calculateConfidenceCalibration(buffer, heap)]

\* totalPredictions, overallAccuracy (1/Scale), modelWeights and the counts
\* of confidenceCalibration (all 0 where the code leaves the field out)
getPerformanceStats(buffer, heap, weights) ==
    LET validPredictions == SelectSeq(buffer, LAMBDA i : heap[i].actualOutcome # Null)
    IN  IF Len(validPredictions) = 0
        THEN [totalPredictions      |-> 0,
              overallAccuracy       |-> 50 * Scale,
              modelWeights          |-> weights,
              confidenceCalibration |-> [r \in ConfidenceRanges |-> 0]]
        ELSE [totalPredictions      |-> Len(validPredictions),
              overallAccuracy       |-> SumAccuracy(heap, validPredictions)
                                            \div Len(validPredictions),
              modelWeights          |-> weights,
              confidenceCalibration |->
                  calculateConfidenceCalibration(validPredictions, heap)]

\* the agentData object literal built by analyze
AgentDataDefaults(optimalWeights) ==
    [aiWeight          |-> DefaultWeights.ai,
     traditionalWeight |-> DefaultWeights.technical,
     historicalWeight  |-> DefaultWeights.historical]

AgentData(optimalWeights) ==
    [aiWeight          |-> optimalWeights.ai,
     traditionalWeight |-> optimalWeights.technical,
     historicalWeight  |-> optimalWeights.historical]

\* niftyData.currentPrice * (1 + expectedMove / 100);
\* expectedMove in thousandths of a percent
TargetPrice(currentPrice, expectedMove) ==
    currentPrice + (currentPrice * expectedMove) \div 100000

(***************************************************************************)
(* State                                                                   *)
(***************************************************************************)
VARIABLES
    predictions,   \* this.predictions: the buffer, as the ids of its objects
    pred,          \* the prediction objects, by id (an evicted object lives
                   \* on while a validation holds a reference to it)
    results,       \* this.results
    modelWeights,  \* this.modelWeights
    nextId,        \* the next fresh prediction id
    tracking,      \* trackPrediction calls awaiting captureMarketConditions
    timer,         \* the setTimeout of each prediction
    awaiting,      \* validatePrediction calls awaiting getNiftyIndexData, per id
    directCalls,   \* number of direct validatePrediction calls made
    cycle,         \* analyze: "idle" or "gathering" (awaiting its inputs)
    appended,      \* history: results.push calls, per id
    adjustRuns,    \* history: adjustModelWeights calls, per id
    outcomeWrites, \* history: writes of actualOutcome/accuracy, per id
    lastLookup,    \* history: where the price of the last resolution came from
    fusedWith,     \* history: the weights enhancedCombineAnalysis was given, per id
    fin,           \* SpecFusion: the arguments of one fusion call
    fout,          \* SpecFusion: its result
    outcomes,      \* SpecWeights: number of outcomes applied
    lastOutcome,   \* SpecWeights: the last outcome and the weights before it
    orchestration, \* runAnalysis: its position, its agents' promises, its result
    replay,        \* SpecReplay: two runs of the full cycle on the same inputs
    logger         \* TradingLogger: activeSuggestions, the actual_outcomes rows
                   \* and the calls in progress

vars == <<predictions, pred, results, modelWeights, nextId, tracking, timer,
          awaiting, directCalls, cycle, appended, adjustRuns, outcomeWrites,
          lastLookup, fusedWith, fin, fout, outcomes, lastOutcome,
          orchestration, replay, logger>>

trackerVars == <<predictions, pred, results, modelWeights, nextId, tracking,
                 timer, awaiting, directCalls, cycle, appended, adjustRuns,
                 outcomeWrites, lastLookup, fusedWith>>

fusionVars == <<fin, fout>>

weightVars == <<outcomes, lastOutcome>>

runVars == <<orchestration>>

replayVars == <<replay>>

loggerVars == <<logger>>

Ids == 1..MaxIds

NoPrediction ==
    [signal |-> "NONE", confidence |-> 0, targetPrice |-> 0,
     actualOutcome |-> Null, accuracy |-> Null, actualPrice |-> 0,
     agentData |-> AgentData(DefaultWeights)]

NoFusion == [kind |-> "none"]

NoOutcome == [accuracy |-> Null, agentData |-> AgentData(DefaultWeights),
              recent |-> [total |-> 0, count |-> 0], before |-> DefaultWeights]

Range(seq) == {seq[k] : k \in 1..Len(seq)}

\* the four agents of the orchestrator
Agents == Range(VotingAgents)

\* no agent result yet
NoResult == [signal |-> "NONE", confidence |-> 0]

\* runAnalysis has not been called
IdleRun ==
    [pc      |-> "idle",
     agent   |-> [a \in Agents |-> "idle"],
     results |-> [a \in Agents |-> NoResult],
     fault   |-> "none",
     outcome |-> [status |-> "none"]]

\* a tracker as constructed: the default weights and an empty buffer
FreshTracker == [modelWeights |-> DefaultWeights, predictions |-> <<>>]

FreshReplay == [cycles |-> 0, first |-> FreshTracker, second |-> FreshTracker]

\* the ids storeTradingSuggestion hands out, in the order of their insertion
\* into activeSuggestions
Suggestions == 1..MaxSuggestions

\* the slots of checkSuggestionOutcomes runs
Runs == 1..MaxRuns

\* no checkSuggestionOutcomes run, no recordOutcome call
IdleCheck == [pc |-> "idle", cursor |-> 0, id |-> 0]

\* a TradingLogger after initialize: nothing stored, nothing active, no rows
FreshLogger ==
    [stored      |-> 0,
     active      |-> {},
     rows        |-> [s \in Suggestions |-> 0],
     run         |-> [r \in Runs |-> IdleCheck],
     manual      |-> IdleCheck,
     manualCalls |-> 0]

InitTracker ==
    /\ predictions = <<>>
    /\ pred = [i \in Ids |-> NoPrediction]
    /\ results = <<>>
    /\ modelWeights = DefaultWeights
    /\ nextId = 1
    /\ tracking = {}
    /\ timer = [i \in Ids |-> "none"]
    /\ awaiting = [i \in Ids |-> 0]
    /\ directCalls = 0
    /\ cycle = "idle"
    /\ appended = [i \in Ids |-> 0]
    /\ adjustRuns = [i \in Ids |-> 0]
    /\ outcomeWrites = [i \in Ids |-> 0]
    /\ lastLookup = "none"
    /\ fusedWith = [i \in Ids |-> DefaultWeights]
    /\ outcomes = 0
    /\ lastOutcome = NoOutcome
    /\ orchestration = IdleRun
    /\ replay = FreshReplay
    /\ logger = FreshLogger

Init ==
    /\ InitTracker
    /\ fin = NoFusion
    /\ fout = NoFusion

(***************************************************************************)
(* Inputs of the fusion cycle and of the validation                        *)
(***************************************************************************)
NeutralMicro ==
    [liquidityRisk |-> "MEDIUM", orderFlowBias |-> "NEUTRAL",
     institutionalSentiment |-> "NEUTRAL", depthQuality |-> "MODERATE",
     flowImbalanceHigh |-> FALSE]

\* marketData.getMarketSentiment returns no `signal` and no `confidence`
NoTraditional(hour) ==
    [signal |-> "NONE", confidence |-> 0, volatilityHigh |-> FALSE, hour |-> hour]

\* what one analyze cycle gathers before it fuses
CycleInputs ==
    { [traditional |-> NoTraditional(11),
       ai          |-> [tradingSignal |-> "BUY", confidence |-> 85],
       historical  |-> HistoricalResult(85, "BULLISH_PATTERN", 0),
       micro       |-> NeutralMicro],
      [traditional |-> NoTraditional(11),
       ai          |-> [tradingSignal |-> "SELL", confidence |-> 70],
       historical  |-> getFallbackHistoricalAnalysis,
       micro       |-> NeutralMicro],
      [traditional |-> NoTraditional(11),
       ai          |-> [tradingSignal |-> "HOLD", confidence |-> 50],
       historical  |-> getFallbackHistoricalAnalysis,
       micro       |-> NeutralMicro] }

\* niftyData.currentPrice at fusion time
CurrentPrice == 1000 * 1000

\* the price getNiftyIndexData resolves with at validation time: a move of
\* -2% or +2% against the target, from the exchange or from getMockNiftyData
ActualPrices(targetPrice) == {targetPrice + (targetPrice \div 1000) * k : k \in {0 - 20, 20}}

PriceSources == {"live", "mock"}

(***************************************************************************)
(* PerformanceTracker.trackPrediction                                      *)
(***************************************************************************)
\* up to the await of captureMarketConditions: the prediction object's
\* fields are evaluated, the object is not yet in the buffer
TrackStart(signal, confidence, targetPrice, agentData, usedWeights) ==
    /\ nextId <= MaxIds
    /\ pred' = [pred EXCEPT ![nextId] =
                   [signal |-> signal, confidence |-> confidence,
                    targetPrice |-> targetPrice,
                    actualOutcome |-> Null, accuracy |-> Null,
                    actualPrice |-> 0, agentData |-> agentData]]
    /\ tracking' = tracking \cup {nextId}
    /\ fusedWith' = [fusedWith EXCEPT ![nextId] = usedWeights]
    /\ nextId' = nextId + 1

\* after the await: push, trim to the last maxPredictions, setTimeout
TrackFinish(i) ==
    /\ i \in tracking
    /\ tracking' = tracking \ {i}
    /\ predictions' = LastN(Append(predictions, i), maxPredictions)
    /\ timer' = [timer EXCEPT ![i] = "scheduled"]
    /\ UNCHANGED <<pred, results, modelWeights, nextId, awaiting, directCalls,
                   cycle, appended, adjustRuns, outcomeWrites, lastLookup,
                   fusedWith, weightVars, fusionVars, runVars, replayVars, loggerVars>>

(***************************************************************************)
(* MarketSentimentAgent.analyze                                            *)
(***************************************************************************)
\* analyze starts and awaits market data, historical patterns,
\* microstructure and the AI analysis
AnalyzeBegin ==
    /\ cycle = "idle"
    /\ nextId <= MaxIds
    /\ cycle' = "gathering"
    /\ UNCHANGED <<predictions, pred, results, modelWeights, nextId, tracking,
                   timer, awaiting, directCalls, appended, adjustRuns,
                   outcomeWrites, lastLookup, fusedWith, weightVars,
                   fusionVars, runVars, replayVars, loggerVars>>

\* the synchronous stretch from getOptimalWeights to the await inside
\* trackPrediction
AnalyzeFuse ==
    /\ cycle = "gathering"
    /\ cycle' = "idle"
    /\ \E in \in CycleInputs :
          LET optimalWeights == getOptimalWeights(modelWeights)
              enhanced == enhancedCombineAnalysis(in.traditional, in.ai,
                              in.historical, in.micro, optimalWeights)
          IN  IF enhanced.signal # "HOLD"
              THEN TrackStart(enhanced.signal, enhanced.confidence,
                              TargetPrice(CurrentPrice, enhanced.expectedMove),
                              AgentData(optimalWeights), optimalWeights)
              ELSE UNCHANGED <<pred, tracking, fusedWith, nextId>>
    /\ UNCHANGED <<predictions, results, modelWeights, timer, awaiting,
                   directCalls, appended, adjustRuns, outcomeWrites, lastLookup, weightVars, fusionVars,
                   runVars, replayVars, loggerVars>>

(***************************************************************************)
(* PerformanceTracker.validatePrediction                                   *)
(***************************************************************************)
\* the guard "if (!prediction || prediction.actualOutcome !== null) return"
\* without the lookup in the buffer
ProceedsUnchecked(i) == pred[i].actualOutcome = Null

Proceeds(i) == i \in Range(predictions) /\ pred[i].actualOutcome = Null

\* up to the await of getNiftyIndexData
ValidateStart(i) ==
    /\ awaiting' = [awaiting EXCEPT ![i] = IF Proceeds(i) THEN @ + 1 ELSE @]
    /\ UNCHANGED <<predictions, pred, results, modelWeights, nextId, tracking,
                   cycle, appended, adjustRuns, outcomeWrites, lastLookup,
                   fusedWith, weightVars, fusionVars, runVars, replayVars, loggerVars>>

\* the setTimeout callback of trackPrediction
TimerFire(i) ==
    /\ timer[i] = "scheduled"
    /\ timer' = [timer EXCEPT ![i] = "fired"]
    /\ ValidateStart(i)
    /\ UNCHANGED directCalls

\* validatePrediction called with an id trackPrediction has returned
DirectValidate(i) ==
    /\ timer[i] # "none"
    /\ directCalls < MaxDirect
    /\ directCalls' = directCalls + 1
    /\ ValidateStart(i)
    /\ UNCHANGED timer

\* the prediction object after "Update prediction with results"
Resolved(prediction, actualPrice) ==
    LET actualMove == ActualMove(actualPrice, prediction.targetPrice)
    IN  [prediction EXCEPT
            !.actualOutcome = actualMove,
            !.accuracy = calculateAccuracy(prediction.signal, actualMove,
                                           prediction.confidence),
            !.actualPrice = actualPrice]

ResultEntry(i, prediction) ==
    [id |-> i, signal |-> prediction.signal, predicted |-> prediction.targetPrice,
     actual |-> prediction.actualPrice, accuracy |-> prediction.accuracy,
     confidence |-> prediction.confidence]

\* a resolution that yields after updating the prediction object, before
\* results.push and adjustModelWeights
ValidateFinishYielding(i) ==
    /\ awaiting[i] > 0
    /\ awaiting' = [awaiting EXCEPT ![i] = @ - 1]
    /\ \E source \in PriceSources :
       \E actualPrice \in ActualPrices(pred[i].targetPrice) :
          /\ pred' = [pred EXCEPT ![i] = Resolved(pred[i], actualPrice)]
          /\ lastLookup' = source
    /\ outcomeWrites' = [outcomeWrites EXCEPT ![i] = @ + 1]
    /\ UNCHANGED <<predictions, results, modelWeights, appended,
                   adjustRuns, nextId, tracking, timer, directCalls, cycle,
                   fusedWith, weightVars, fusionVars, runVars, replayVars, loggerVars>>

\* after the await: everything from "Calculate actual price movement" to
\* "Clean up old results" runs without yielding
ValidateFinish(i) ==
    /\ awaiting[i] > 0
    /\ awaiting' = [awaiting EXCEPT ![i] = @ - 1]
    /\ \E source \in PriceSources :
       \E actualPrice \in ActualPrices(pred[i].targetPrice) :
          LET prediction == Resolved(pred[i], actualPrice)
              heap       == [pred EXCEPT ![i] = prediction]
              recent     == getRecentAccuracy(predictions, heap, 20)
              weights    == adjustModelWeights(modelWeights, prediction, recent)
          IN  /\ pred' = heap
              /\ results' = LastN(Append(results, ResultEntry(i, prediction)),
                                  maxPredictions)
              /\ modelWeights' = weights
              /\ lastLookup' = source
    /\ appended' = [appended EXCEPT ![i] = @ + 1]
    /\ adjustRuns' = [adjustRuns EXCEPT ![i] = @ + 1]
    /\ outcomeWrites' = [outcomeWrites EXCEPT ![i] = @ + 1]
    /\ UNCHANGED <<predictions, nextId, tracking, timer, directCalls, cycle,
                   fusedWith, weightVars, fusionVars, runVars, replayVars, loggerVars>>

Next ==
    \/ AnalyzeBegin
    \/ AnalyzeFuse
    \/ \E i \in Ids : TrackFinish(i)
    \/ \E i \in Ids : TimerFire(i)
    \/ \E i \in Ids : DirectValidate(i)
    \/ \E i \in Ids : ValidateFinish(i)

Spec == Init /\ [][Next]_vars

(***************************************************************************)
(* SpecWeights: adjustModelWeights applied to any sequence of outcomes     *)
(***************************************************************************)
\* accuracies of validated outcomes, in 1/Scale: poor, middling, at the
\* excellent threshold, excellent
OutcomeAccuracies == {35 * Scale, 65 * Scale, 80 * Scale, 95 * Scale}

\* what getRecentAccuracy(20) can report: no data, a low and a high average
RecentAccuracies ==
    {[total |-> 0, count |-> 0],
     [total |-> 50 * Scale, count |-> 1],
     [total |-> 195 * Scale, count |-> 2]}

\* weights a prediction can have been created under
SnapshotWeights(weights) ==
    {weights, DefaultWeights, [ai |-> 40, technical |-> 60, historical |-> 0]}

ApplyOutcome ==
    /\ outcomes < MaxOutcomes
    /\ \E accuracy \in OutcomeAccuracies :
       \E recent \in RecentAccuracies :
       \E snapshot \in SnapshotWeights(modelWeights) :
          LET prediction == [accuracy |-> accuracy, agentData |-> AgentData(snapshot)]
          IN  /\ modelWeights' = adjustModelWeights(modelWeights, prediction, recent)
              /\ lastOutcome' = [accuracy |-> accuracy,
                                 agentData |-> AgentData(snapshot),
                                 recent |-> recent,
                                 before |-> modelWeights]
    /\ outcomes' = outcomes + 1
    /\ UNCHANGED <<predictions, pred, results, nextId, tracking, timer, awaiting,
                   directCalls, cycle, appended, adjustRuns, outcomeWrites,
                   lastLookup, fusedWith, fusionVars, runVars, replayVars, loggerVars>>

NextWeights == ApplyOutcome

SpecWeights == Init /\ [][NextWeights]_vars

(***************************************************************************)
(* SpecFusion: the two fusion functions on bounded sets of arguments       *)
(***************************************************************************)
Signals == {"BUY", "SELL", "HOLD"}

\* confidences an agent reports; 0 also stands for a missing confidence
AgentConfidences == {0, 30, 47, 60, 70, 80, 100}

\* the signals of the risk agent, its fallback HOLD, and NONE for a risk
\* result without a signal
RiskSignals == {"APPROVE_TRADE", "CAUTIOUS_TRADE", "AVOID_TRADE", "HOLD", "NONE"}

AgentResults ==
    [signal : Signals \cup {"NONE"}, confidence : AgentConfidences]

AggregateArguments ==
    [kind      : {"aggregate"},
     technical : AgentResults,
     sentiment : AgentResults,
     research  : AgentResults,
     risk      : [signal : RiskSignals, confidence : {60}]]

Traditionals ==
    [signal : Signals \cup {"NONE"}, confidence : {0, 100},
     volatilityHigh : BOOLEAN, hour : {9, 11}]

AIs == [tradingSignal : Signals, confidence : {0, 100}]

Historicals ==
    {HistoricalResult(a, p, 0) :
        a \in {30, 90},
        p \in {"BULLISH_PATTERN", "BEARISH_PATTERN", "NEUTRAL_PATTERN"}}
    \cup {HistoricalResult(50, "INSUFFICIENT_DATA", 0), getFallbackHistoricalAnalysis}

Micros ==
    [liquidityRisk : {"LOW", "HIGH"},
     orderFlowBias : {"BULLISH", "NEUTRAL", "BEARISH"},
     institutionalSentiment : {"BULLISH", "NEUTRAL", "BEARISH"},
     depthQuality : {"EXCELLENT", "POOR"},
     flowImbalanceHigh : {FALSE}]

\* values this.modelWeights takes: the default and the two extremes
FusionWeights ==
    {DefaultWeights,
     [ai |-> 80, technical |-> 20, historical |-> 0],
     [ai |-> 30, technical |-> 70, historical |-> 0]}

EnhancedArguments ==
    [kind        : {"enhanced"},
     traditional : Traditionals,
     ai          : AIs,
     historical  : Historicals,
     micro       : Micros,
     weights     : FusionWeights]

InitFusion ==
    /\ InitTracker
    /\ fin \in AggregateArguments \cup EnhancedArguments
    /\ fout = NoFusion

RunAggregate ==
    /\ fin.kind = "aggregate"
    /\ fout = NoFusion
    /\ fout' = [kind |-> "aggregate", decision |-> aggregateSignals(fin)]
    /\ UNCHANGED <<trackerVars, weightVars, runVars, replayVars, loggerVars, fin>>

RunEnhanced ==
    /\ fin.kind = "enhanced"
    /\ fout = NoFusion
    /\ fout' = [kind |-> "enhanced",
                decision |-> enhancedCombineAnalysis(fin.traditional, fin.ai,
                                 fin.historical, fin.micro, fin.weights)]
    /\ UNCHANGED <<trackerVars, weightVars, runVars, replayVars, loggerVars, fin>>

NextFusion == RunAggregate \/ RunEnhanced

SpecFusion == InitFusion /\ [][NextFusion]_vars

(***************************************************************************)
(* SpecAccuracy: the scoring of validatePrediction on bounded arguments    *)
(***************************************************************************)
\* prediction.targetPrice: 100.00, in hundredths
ReferencePrice == 100 * 100

\* currentData.currentPrice at validation: moves of 0, 0.1, 0.4, 1.5 and 3
\* percent, both ways
ScoredPrices == {ReferencePrice + m : m \in {0 - 300, 0 - 150, 0 - 40, 0 - 10, 0,
                                              10, 40, 150, 300}}

\* prediction.confidence, in 1/Scale
ScoredConfidences == {c * Scale : c \in {20, 50, 70, 85, 95}}

AccuracyArguments ==
    [kind        : {"accuracy"},
     signal      : Signals,
     targetPrice : {ReferencePrice},
     actualPrice : ScoredPrices,
     confidence  : ScoredConfidences]

InitAccuracy ==
    /\ InitTracker
    /\ fin \in AccuracyArguments
    /\ fout = NoFusion

\* "Calculate actual price movement" and "Calculate accuracy based on signal
\* vs actual movement"
RunAccuracy ==
    /\ fin.kind = "accuracy"
    /\ fout = NoFusion
    /\ LET actualMove == ActualMove(fin.actualPrice, fin.targetPrice)
       IN  fout' = [kind |-> "accuracy",
                    decision |-> [actualMove |-> actualMove,
                                  accuracy |-> calculateAccuracy(fin.signal,
                                                   actualMove, fin.confidence)]]
    /\ UNCHANGED <<trackerVars, weightVars, runVars, replayVars, loggerVars, fin>>

NextAccuracy == RunAccuracy

SpecAccuracy == InitAccuracy /\ [][NextAccuracy]_vars

(***************************************************************************)
(* AgentOrchestrator.runAnalysis                                           *)
(***************************************************************************)
\* the value analyze() resolved with is undefined
Undefined == [signal |-> "UNDEFINED", confidence |-> 0]

\* what the promise of an agent's analyze() resolves with: a signal, or the
\* agent's own fallback (HOLD, confidence 0); the technical agent, whose
\* analyze is not guarded by runAnalysis, may also resolve with nothing
AgentOutputs(a) ==
    IF a = "risk"
    THEN {[signal |-> "APPROVE_TRADE", confidence |-> 60],
          [signal |-> "AVOID_TRADE", confidence |-> 75],
          [signal |-> "HOLD", confidence |-> 0]}
    ELSE {[signal |-> "BUY", confidence |-> 80],
          [signal |-> "HOLD", confidence |-> 0]}
         \cup (IF a = "technical" THEN {Undefined} ELSE {})

\* the agents whose analyze() can reject: sentiment, research and risk catch
\* every error inside analyze and resolve with their fallback
Rejecting == {"technical"}

\* getErrorSignal(error)
getErrorSignal(error) == [signal |-> "HOLD", confidence |-> 0, error |-> TRUE]

\* the finalSignal object literal of runAnalysis
FinalSignal(aggregatedSignal) ==
    [signal |-> aggregatedSignal.action,
     confidence |-> aggregatedSignal.confidence,
     error |-> FALSE]

\* the catch block of runAnalysis: how the promise of runAnalysis settles
\* after a fault
OnFaultRethrown(error) == [status |-> "rejected", value |-> getErrorSignal(error)]

OnFault(error) == [status |-> "resolved", value |-> getErrorSignal(error)]

\* runAnalysis is called and awaits marketData.getNiftyIndexData()
RunStart ==
    /\ orchestration.pc = "idle"
    /\ orchestration' = [orchestration EXCEPT !.pc = "marketData"]
    /\ UNCHANGED <<trackerVars, weightVars, fusionVars, replayVars, loggerVars>>

\* getNiftyIndexData resolves (with live or mock data, it never rejects);
\* the four analyze() calls are issued and awaited with Promise.all
MarketDataReturns ==
    /\ orchestration.pc = "marketData"
    /\ orchestration' = [orchestration EXCEPT
                            !.pc = "agents",
                            !.agent = [a \in Agents |-> "pending"]]
    /\ UNCHANGED <<trackerVars, weightVars, fusionVars, replayVars, loggerVars>>

\* the promise of one agent resolves
AgentResolves(a) ==
    /\ orchestration.agent[a] = "pending"
    /\ \E r \in AgentOutputs(a) :
          orchestration' = [orchestration EXCEPT
                               !.agent[a] = "resolved",
                               !.results[a] = r]
    /\ UNCHANGED <<trackerVars, weightVars, fusionVars, replayVars, loggerVars>>

\* the promise of one agent rejects
AgentRejects(a) ==
    /\ a \in Rejecting
    /\ orchestration.agent[a] = "pending"
    /\ orchestration' = [orchestration EXCEPT !.agent[a] = "rejected"]
    /\ UNCHANGED <<trackerVars, weightVars, fusionVars, replayVars, loggerVars>>

\* the promise of one agent will never settle
AgentHangs(a) ==
    /\ orchestration.agent[a] = "pending"
    /\ Cardinality({b \in Agents : orchestration.agent[b] = "hung"}) < MaxSilent
    /\ orchestration' = [orchestration EXCEPT !.agent[a] = "hung"]
    /\ UNCHANGED <<trackerVars, weightVars, fusionVars, replayVars, loggerVars>>

\* Promise.all has resolved: aggregateSignals and the rest of the try block;
\* reading a property of an undefined result throws into the catch block
RunFuses ==
    /\ orchestration.pc = "agents"
    /\ \A a \in Agents : orchestration.agent[a] = "resolved"
    /\ orchestration' =
          IF \E a \in Agents : orchestration.results[a] = Undefined
          THEN [orchestration EXCEPT
                   !.pc = "done", !.fault = "aggregation",
                   !.outcome = OnFault("aggregation")]
          ELSE [orchestration EXCEPT
                   !.pc = "done",
                   !.outcome = [status |-> "resolved",
                                value |-> FinalSignal(
                                    aggregateSignals(orchestration.results))]]
    /\ UNCHANGED <<trackerVars, weightVars, fusionVars, replayVars, loggerVars>>

\* Promise.all has rejected with the first rejection: the catch block
RunCatches ==
    /\ orchestration.pc = "agents"
    /\ \E a \in Agents : orchestration.agent[a] = "rejected"
    /\ orchestration' = [orchestration EXCEPT
                            !.pc = "done", !.fault = "agentRejected",
                            !.outcome = OnFault("agentRejected")]
    /\ UNCHANGED <<trackerVars, weightVars, fusionVars, replayVars, loggerVars>>

NextRun ==
    \/ RunStart
    \/ MarketDataReturns
    \/ \E a \in Agents : AgentResolves(a)
    \/ \E a \in Agents : AgentRejects(a)
    \/ \E a \in Agents : AgentHangs(a)
    \/ RunFuses
    \/ RunCatches

SpecRun == Init /\ [][NextRun]_vars

\* the event loop runs every continuation that is ready, and every promise
\* either settles or is one that never will
SpecRunFair ==
    /\ SpecRun
    /\ WF_vars(RunStart)
    /\ WF_vars(MarketDataReturns)
    /\ WF_vars(RunFuses)
    /\ WF_vars(RunCatches)
    /\ \A a \in Agents :
          WF_vars(AgentResolves(a) \/ AgentRejects(a) \/ AgentHangs(a))

(***************************************************************************)
(* SpecReplay: the full cycle (enhancedCombineAnalysis, trackPrediction,   *)
(* validatePrediction, adjustModelWeights) run twice on the same inputs    *)
(***************************************************************************)
\* an AI BUY against a bearish pattern and bearish order flow
ContestedBuy ==
    [traditional |-> NoTraditional(11),
     ai          |-> [tradingSignal |-> "BUY", confidence |-> 85],
     historical  |-> HistoricalResult(70, "BEARISH_PATTERN", 0),
     micro       |-> [NeutralMicro EXCEPT !.orderFlowBias = "BEARISH",
                                          !.institutionalSentiment = "BEARISH"]]

\* what analyze gathers before it fuses, per cycle
ReplayInputs == CycleInputs \cup {ContestedBuy}

\* new Date().getHours() at the time enhancedCombineAnalysis runs
WallClockHours == {11, 15}

\* the price getNiftyIndexData resolves with at validation time: 2% below
\* or above the price at fusion time
ReplayPrices == {CurrentPrice + (CurrentPrice \div 1000) * k : k \in {0 - 20, 20}}

\* the prediction object literal of trackPrediction
NewPrediction(signal, confidence, targetPrice, agentData) ==
    [signal |-> signal, confidence |-> confidence, targetPrice |-> targetPrice,
     actualOutcome |-> Null, accuracy |-> Null, actualPrice |-> 0,
     agentData |-> agentData]

\* one cycle on one tracker: fuse at the given hour of the wall clock; a
\* non-HOLD signal is tracked (push, trim), validated against actualPrice and
\* fed to adjustModelWeights
FullCycle(tracker, in, hour, actualPrice) ==
    LET optimalWeights == getOptimalWeights(tracker.modelWeights)
        enhanced == enhancedCombineAnalysis(
                        [in.traditional EXCEPT !.hour = hour], in.ai,
                        in.historical, in.micro, optimalWeights)
        created  == NewPrediction(enhanced.signal, enhanced.confidence,
                        TargetPrice(CurrentPrice, enhanced.expectedMove),
                        AgentData(optimalWeights))
        buffer   == LastN(Append(tracker.predictions, created), maxPredictions)
        resolved == Resolved(created, actualPrice)
        heap     == [buffer EXCEPT ![Len(buffer)] = resolved]
        recent   == getRecentAccuracy([k \in 1..Len(heap) |-> k], heap, 20)
    IN  IF enhanced.signal = "HOLD" THEN tracker
        ELSE [modelWeights |-> adjustModelWeights(tracker.modelWeights,
                                                 resolved, recent),
              predictions  |-> heap]

\* both runs take the same inputs and the same price; each reads its own
\* wall clock
ReplayCycle ==
    /\ replay.cycles < MaxCycles
    /\ \E in \in ReplayInputs :
       \E actualPrice \in ReplayPrices :
       \E hourFirst \in WallClockHours :
       \E hourSecond \in WallClockHours :
          replay' = [cycles |-> replay.cycles + 1,
                     first  |-> FullCycle(replay.first, in, hourFirst, actualPrice),
                     second |-> FullCycle(replay.second, in, hourSecond, actualPrice)]
    /\ UNCHANGED <<trackerVars, weightVars, fusionVars, runVars, loggerVars>>

NextReplay == ReplayCycle

SpecReplay == Init /\ [][NextReplay]_vars

(***************************************************************************)
(* SpecHistory: analyzeHistoricalPatterns on bounded historical data       *)
(***************************************************************************)
\* data points as generateDataPoint builds them: volatility 1% or 2%,
\* momentum 0.1%, volume 50M, hour 10 or 14, a 15-minute move of -0.4%,
\* 0.05% or 0.4%
DataPoints ==
    [volatility    : {100, 200},
     momentum      : {10},
     volume        : {100},
     hour          : {10, 14},
     signal        : Signals,
     actualOutcome : {0 - 40, 5, 40}]

\* this.historicalData after loadHistoricalData: never empty
HistoricalData ==
    UNION {[1..n -> DataPoints] : n \in 1..MaxSamples}

\* currentMarketConditions as analyze builds them (momentum 0 or 1), and an
\* undefined argument
CurrentConditions ==
    [defined : {TRUE}, volatility : {120}, momentum : {0, 100},
     volumeRatio : {100}, hour : {11}]
    \cup [defined : {FALSE}, volatility : {0}, momentum : {0},
          volumeRatio : {0}, hour : {0}]

HistoryArguments ==
    [kind : {"historical"}, historicalData : HistoricalData,
     currentData : CurrentConditions]

InitHistory ==
    /\ InitTracker
    /\ fin \in HistoryArguments
    /\ fout = NoFusion

RunHistorical ==
    /\ fin.kind = "historical"
    /\ fout = NoFusion
    /\ fout' = [kind |-> "historical",
                decision |-> analyzeHistoricalPatterns(fin.historicalData,
                                                       fin.currentData)]
    /\ UNCHANGED <<trackerVars, weightVars, runVars, replayVars, loggerVars, fin>>

NextHistory == RunHistorical

SpecHistory == InitHistory /\ [][NextHistory]_vars

(***************************************************************************)
(* SpecSettling: the tracker from a state late in a run                    *)
(***************************************************************************)
\* a BUY prediction created by analyze under the default weights and
\* resolved 2% below its target: a poor outcome
PoorPrediction ==
    LET in == CHOOSE in \in CycleInputs :
                  enhancedCombineAnalysis(in.traditional, in.ai, in.historical,
                      in.micro, DefaultWeights).signal = "BUY"
        enhanced == enhancedCombineAnalysis(in.traditional, in.ai, in.historical,
                        in.micro, DefaultWeights)
        targetPrice == TargetPrice(CurrentPrice, enhanced.expectedMove)
    IN  Resolved([signal |-> enhanced.signal, confidence |-> enhanced.confidence,
                  targetPrice |-> targetPrice,
                  actualOutcome |-> Null, accuracy |-> Null, actualPrice |-> 0,
                  agentData |-> AgentData(DefaultWeights)],
                 targetPrice - (targetPrice \div 1000) * 20)

\* a state after prediction 1 was tracked under the default weights and
\* resolved with a poor outcome by its timer (once), or by its timer and
\* one or two overlapping direct validatePrediction calls (two or three
\* times): the AI weight is 0.6 - 0.03 per resolution
InitSettling ==
    /\ \E n \in 1..3 :
          /\ results = LastN([k \in 1..n |-> ResultEntry(1, PoorPrediction)],
                             maxPredictions)
          /\ modelWeights = [ai |-> 60 - 3 * n, technical |-> 40 + 3 * n,
                             historical |-> 0]
          /\ appended = [i \in Ids |-> IF i = 1 THEN n ELSE 0]
          /\ adjustRuns = [i \in Ids |-> IF i = 1 THEN n ELSE 0]
          /\ outcomeWrites = [i \in Ids |-> IF i = 1 THEN n ELSE 0]
    /\ predictions = <<1>>
    /\ pred = [i \in Ids |-> IF i = 1 THEN PoorPrediction ELSE NoPrediction]
    /\ nextId = 2
    /\ tracking = {}
    /\ timer = [i \in Ids |-> IF i = 1 THEN "fired" ELSE "none"]
    /\ awaiting = [i \in Ids |-> 0]
    /\ directCalls = 0
    /\ cycle = "idle"
    /\ lastLookup = "live"
    /\ fusedWith = [i \in Ids |-> DefaultWeights]
    /\ outcomes = 0
    /\ lastOutcome = NoOutcome
    /\ orchestration = IdleRun
    /\ replay = FreshReplay
    /\ logger = FreshLogger
    /\ fin = NoFusion
    /\ fout = NoFusion

SpecSettling == InitSettling /\ [][Next]_vars

(***************************************************************************)
(* SpecLogger: TradingLogger outcome recording                             *)
(***************************************************************************)
\* logTradingSuggestion: the row is stored under a fresh id and the id is
\* put into activeSuggestions
LogSuggestion ==
    /\ logger.stored < MaxSuggestions
    /\ logger' = [logger EXCEPT !.stored = @ + 1,
                                !.active = @ \cup {logger.stored + 1}]
    /\ UNCHANGED <<trackerVars, weightVars, fusionVars, runVars, replayVars>>

\* the setInterval callback: checkSuggestionOutcomes up to the await of
\* getCurrentMarketPrice (with no active suggestion it returns at once)
IntervalFires(r) ==
    /\ logger.run[r].pc = "idle"
    /\ logger.active # {}
    /\ logger' = [logger EXCEPT !.run[r] = [pc |-> "price", cursor |-> 0, id |-> 0]]
    /\ UNCHANGED <<trackerVars, weightVars, fusionVars, runVars, replayVars>>

\* getCurrentMarketPrice resolves: the loop over activeSuggestions starts
CheckPriceReturns(r) ==
    /\ logger.run[r].pc = "price"
    /\ logger' = [logger EXCEPT !.run[r].pc = "loop"]
    /\ UNCHANGED <<trackerVars, weightVars, fusionVars, runVars, replayVars>>

\* the entries the Map iterator of a run has still to visit
Unvisited(r) == {s \in logger.active : s > logger.run[r].cursor}

\* one iteration of the loop up to its await: an expired suggestion, or one
\* with a significant price move, goes to recordExpiryOutcome or
\* recordMovementOutcome; any other is passed over; after the last entry
\* the run ends
CheckLoop(r) ==
    /\ logger.run[r].pc = "loop"
    /\ IF Unvisited(r) = {}
       THEN logger' = [logger EXCEPT !.run[r] = IdleCheck]
       ELSE LET s == CHOOSE s \in Unvisited(r) : \A t \in Unvisited(r) : s <= t
            IN  \E due \in BOOLEAN :
                   logger' = [logger EXCEPT !.run[r] =
                                 IF due THEN [pc |-> "recording", cursor |-> s, id |-> s]
                                 ELSE [pc |-> "loop", cursor |-> s, id |-> 0]]
    /\ UNCHANGED <<trackerVars, weightVars, fusionVars, runVars, replayVars>>

\* AnalyticsDB.recordActualOutcome: INSERT INTO actual_outcomes
recordActualOutcome(rows, suggestionId) ==
    [rows EXCEPT ![suggestionId] = @ + 1]

\* recordActualOutcome called by the run inserts its row
CheckInserts(r) ==
    /\ logger.run[r].pc = "recording"
    /\ logger' = [logger EXCEPT
                     !.rows = recordActualOutcome(@, logger.run[r].id),
                     !.run[r].pc = "recorded"]
    /\ UNCHANGED <<trackerVars, weightVars, fusionVars, runVars, replayVars>>

\* the record call returns: activeSuggestions.delete and the next iteration
CheckDeletes(r) ==
    /\ logger.run[r].pc = "recorded"
    /\ logger' = [logger EXCEPT
                     !.active = @ \ {logger.run[r].id},
                     !.run[r] = [pc |-> "loop", cursor |-> logger.run[r].cursor,
                                 id |-> 0]]
    /\ UNCHANGED <<trackerVars, weightVars, fusionVars, runVars, replayVars>>

\* POST /api/analytics/record-outcome: recordOutcome up to its await
ManualBegins(s) ==
    /\ logger.manual.pc = "idle"
    /\ logger.manualCalls < MaxManual
    /\ s <= logger.stored
    /\ logger' = [logger EXCEPT
                     !.manual = [pc |-> "recording", cursor |-> 0, id |-> s],
                     !.manualCalls = @ + 1]
    /\ UNCHANGED <<trackerVars, weightVars, fusionVars, runVars, replayVars>>

ManualInserts ==
    /\ logger.manual.pc = "recording"
    /\ logger' = [logger EXCEPT
                     !.rows = recordActualOutcome(@, logger.manual.id),
                     !.manual.pc = "recorded"]
    /\ UNCHANGED <<trackerVars, weightVars, fusionVars, runVars, replayVars>>

\* "Remove from active tracking"
ManualDeletes ==
    /\ logger.manual.pc = "recorded"
    /\ logger' = [logger EXCEPT
                     !.active = @ \ {logger.manual.id},
                     !.manual = IdleCheck]
    /\ UNCHANGED <<trackerVars, weightVars, fusionVars, runVars, replayVars>>

NextLogger ==
    \/ LogSuggestion
    \/ \E r \in Runs : IntervalFires(r)
    \/ \E r \in Runs : CheckPriceReturns(r)
    \/ \E r \in Runs : CheckLoop(r)
    \/ \E r \in Runs : CheckInserts(r)
    \/ \E r \in Runs : CheckDeletes(r)
    \/ \E s \in Suggestions : ManualBegins(s)
    \/ ManualInserts
    \/ ManualDeletes

SpecLogger == Init /\ [][NextLogger]_vars

(***************************************************************************)
(* Properties                                                              *)
(***************************************************************************)
Created(i) == i < nextId

Voters(args) == {a \in {"technical", "sentiment", "research"} : args[a].signal # "NONE"}

\* every voting opinion of an aggregateSignals call has action x
UnanimousAggregate(args, x) ==
    /\ Voters(args) # {}
    /\ \A a \in Voters(args) : args[a].signal = x

\* the action each of the four sources of enhancedCombineAnalysis argues for
SourceActions(args) ==
    { IF args.traditional.signal = "NONE" THEN "HOLD" ELSE args.traditional.signal,
      args.ai.tradingSignal,
      IF args.historical.dominantPattern = "BULLISH_PATTERN" THEN "BUY"
      ELSE IF args.historical.dominantPattern = "BEARISH_PATTERN" THEN "SELL"
      ELSE "HOLD",
      IF getMicrostructureSignalScore(args.micro) > 0 THEN "BUY"
      ELSE IF getMicrostructureSignalScore(args.micro) < 0 THEN "SELL"
      ELSE "HOLD" }

\* C1: a prediction id is resolved at most once, whatever validatePrediction
\* calls overlap: at most one results entry is appended for it,
\* adjustModelWeights runs at most once for it and its actualOutcome and
\* accuracy are written at most once.
C1_ResolvedAtMostOnce ==
    \A i \in Ids :
        appended[i] <= 1 /\ adjustRuns[i] <= 1 /\ outcomeWrites[i] <= 1

\* C2: every completing validation of a prediction whose timer fired gives the
\* prediction exactly one terminal status: when the price was fetched, the so
\* far unresolved prediction is validated and has exactly one result; when the
\* price lookup failed, the prediction is left unscored (indeterminate) and no
\* result is appended.
C2_ExactlyOneTerminalStatus ==
    [][\A i \in Ids :
          (timer[i] = "fired" /\ awaiting'[i] < awaiting[i])
          => IF lastLookup' = "live"
             THEN /\ pred[i].actualOutcome = Null
                  /\ pred'[i].actualOutcome # Null
                  /\ appended'[i] = 1
             ELSE /\ pred'[i] = pred[i]
                  /\ appended'[i] = appended[i]]_vars

\* C3: after any sequence of validated outcomes the ai and technical weights
\* stay within [0.2, 0.8].
C3_WeightsWithinBounds ==
    /\ modelWeights.ai >= 20 /\ modelWeights.ai <= 80
    /\ modelWeights.technical >= 20 /\ modelWeights.technical <= 80

\* an excellent outcome that satisfies the adjustment condition was applied
\* when ai was already at 0.8, and ai is still 0.8
C3_Witness ==
    /\ lastOutcome.accuracy > excellent * Scale
    /\ lastOutcome.agentData.aiWeight > lastOutcome.agentData.traditionalWeight
    /\ AboveRecent(lastOutcome.accuracy, lastOutcome.recent)
    /\ lastOutcome.before.ai = 80
    /\ modelWeights.ai = 80
    /\ modelWeights.technical = 20

\* C4: with at least two voting opinions the confidence returned by
\* aggregateSignals lies in [20, 95], and so does the confidence returned by
\* enhancedCombineAnalysis.
C4_ConfidenceInRange ==
    /\ (fout.kind = "aggregate" /\ Cardinality(Voters(fin)) >= 2)
       => (fout.decision.confidence >= 20 /\ fout.decision.confidence <= 95)
    /\ fout.kind = "enhanced"
       => (fout.decision.confidence >= 20 * Scale
           /\ fout.decision.confidence <= 95 * Scale)

\* three opinions at confidence 100 under an approving risk signal: the raw
\* confidence 100 is returned as 95
C4_Witness ==
    /\ fout.kind = "aggregate"
    /\ Cardinality(Voters(fin)) = 3
    /\ \A a \in Voters(fin) : fin[a].confidence = 100
    /\ fin.risk.signal = "APPROVE_TRADE"
    /\ fout.decision.confidence = 95

C6_RiskNeverVotes ==
    fout.kind = "aggregate"
    => \A r \in [signal : RiskSignals, confidence : AgentConfidences] :
          LET other == aggregateSignals([fin EXCEPT !.risk = r])
          IN  /\ other.action = fout.decision.action
              /\ other.signalStrength = fout.decision.signalStrength

\* a BUY decision under AVOID_TRADE: an approving risk signal would give
\* another confidence, and the action is BUY all the same
C6_Witness ==
    /\ fout.kind = "aggregate"
    /\ fin.risk.signal = "AVOID_TRADE"
    /\ fout.decision.action = "BUY"
    /\ aggregateSignals([fin EXCEPT !.risk.signal = "APPROVE_TRADE"]).confidence
          # fout.decision.confidence

\* C7: when the timer of a prediction that is no longer in the buffer fires,
\* predictions, results and modelWeights stay as they are and no validation
\* is left pending.
C7_EvictedTimerIsNoOp ==
    [][\A i \in Ids :
          (timer[i] = "scheduled" /\ timer'[i] = "fired"
           /\ i \notin Range(predictions))
          => (UNCHANGED <<predictions, pred, results, modelWeights>>
              /\ awaiting' = awaiting)]_vars

\* the timer of an evicted, unresolved prediction has fired and nothing is
\* pending for it
C7_Witness ==
    \E i \in Ids :
        /\ timer[i] = "fired"
        /\ i \notin Range(predictions)
        /\ awaiting[i] = 0
        /\ pred[i].actualOutcome = Null
        /\ appended[i] = 0

\* new = old with x appended, cut to maxPredictions by dropping from the front
DroppedOldest(old, new, x) ==
    /\ Len(new) = Min(Len(old) + 1, maxPredictions)
    /\ \A k \in 1..Len(new) :
          new[k] = Append(old, x)[Len(old) + 1 - Len(new) + k]

C9_ResolutionAtomic ==
    /\ [](\A i \in Ids :
             /\ appended[i] = outcomeWrites[i]
             /\ adjustRuns[i] = outcomeWrites[i]
             /\ (pred[i].actualOutcome # Null) <=> (outcomeWrites[i] > 0))
    /\ [][/\ \A i \in Ids :
                outcomeWrites'[i] # outcomeWrites[i]
                => /\ \A j \in Ids \ {i} : pred'[j] = pred[j]
                   /\ predictions' = predictions
                   /\ Len(results') >= 1
                   /\ results'[Len(results')].id = i
                   /\ modelWeights' =
                         adjustModelWeights(modelWeights, pred'[i],
                             getRecentAccuracy(predictions, pred', 20))
          /\ (results' # results \/ modelWeights' # modelWeights)
             => \E i \in Ids : outcomeWrites'[i] # outcomeWrites[i]]_vars

\* two validations were awaiting the price together, one of them has
\* resolved and changed the weights while the other is still awaiting
C9_Witness ==
    \E i, j \in Ids :
        /\ i # j
        /\ outcomeWrites[i] = 1
        /\ awaiting[j] > 0
        /\ modelWeights # DefaultWeights

\* C10: the weights recorded in a prediction's agentData are the weights
\* enhancedCombineAnalysis was given for it, and these are the value of
\* this.modelWeights in the one state the fusion started from; the fusion
\* step itself leaves the weights alone.
C10_ConsistentSnapshot ==
    /\ [](\A i \in Ids :
             Created(i)
             => /\ pred[i].agentData.aiWeight = fusedWith[i].ai
                /\ pred[i].agentData.traditionalWeight = fusedWith[i].technical
                /\ pred[i].agentData.historicalWeight = fusedWith[i].historical)
    /\ [][nextId' # nextId
          => /\ fusedWith'[nextId] = modelWeights
             /\ modelWeights' = modelWeights]_vars

\* a prediction fused after a validation changed the weights
C10_Witness ==
    \E i \in Ids :
        /\ Created(i)
        /\ fusedWith[i] # DefaultWeights
        /\ pred[i].agentData.aiWeight = modelWeights.ai
        /\ modelWeights # DefaultWeights

\* C12: when fewer than two voting sources report a signal, aggregateSignals
\* returns action HOLD with confidence exactly 20 and a flag marking degraded
\* mode.
C12_DegradedModeHold ==
    (fout.kind = "aggregate" /\ Cardinality(Voters(fin)) < 2)
    => /\ fout.decision.action = "HOLD"
       /\ fout.decision.confidence = 20
       /\ "degraded" \in DOMAIN fout.decision

\* C13: when the risk result carries none of the risk agent's trade signals,
\* the derate applied by aggregateSignals is 0.7 (a riskAdjustment of 30),
\* never 1.0.
C13_MissingRiskDerate ==
    (fout.kind = "aggregate"
     /\ fin.risk.signal \notin {"APPROVE_TRADE", "CAUTIOUS_TRADE", "AVOID_TRADE"})
    => fout.decision.riskAdjustment = 30

\* the three opinions of the scenario: BUY at confidence 80, 70 and 60
ThreeBuys(args) ==
    /\ \A a \in {"technical", "sentiment", "research"} : args[a].signal = "BUY"
    /\ {args.technical.confidence, args.sentiment.confidence,
        args.research.confidence} = {60, 70, 80}

C17_UnavailablePriceNotScored ==
    [][\A i \in Ids :
          (awaiting'[i] < awaiting[i] /\ lastLookup' = "mock")
          => /\ pred'[i] = pred[i]
             /\ results' = results
             /\ modelWeights' = modelWeights]_vars

\* the update rule of the specification, weights in hundredths and accuracy
\* in 1/Scale: excellent (>= 80) moves the step 0.02 from the other source to
\* the source that dominated the prediction, poor (< 45) moves it back, both
\* within [0.2, 0.8]; middling changes nothing
ReferenceAdjust(weights, accuracy, agentData) ==
    LET aiDominant == agentData.aiWeight > agentData.traditionalWeight
        up   == IF aiDominant THEN "ai" ELSE "technical"
        down == IF aiDominant THEN "technical" ELSE "ai"
    IN  IF accuracy >= 80 * Scale
        THEN [weights EXCEPT ![up] = Min(80, @ + 2), ![down] = Max(20, @ - 2)]
        ELSE IF accuracy < 45 * Scale
        THEN [weights EXCEPT ![up] = Max(20, @ - 2), ![down] = Min(80, @ + 2)]
        ELSE weights

\* C18: every resolution updates modelWeights by the update rule of the
\* specification, applied to the accuracy of the resolved prediction and the
\* weights it was created under.
C18_UpdateRule ==
    [][\A i \in Ids :
          (outcomeWrites'[i] # outcomeWrites[i]
           /\ pred'[i].agentData.aiWeight # pred'[i].agentData.traditionalWeight)
          => modelWeights' = ReferenceAdjust(modelWeights, pred'[i].accuracy,
                                            pred'[i].agentData)]_vars

\* the reference score of the specification, in 1/Scale, for a move in
\* hundredths of a percent
ReferenceAccuracy(signal, actualMove) ==
    IF signal = "HOLD"
    THEN Max(0, 100 * Scale - Abs(actualMove) * (Scale \div 10))
    ELSE IF (signal = "BUY" /\ actualMove > 0) \/ (signal = "SELL" /\ actualMove < 0)
    THEN Min(100 * Scale, 70 * Scale + Abs(actualMove) * (Scale \div 10))
    ELSE Max(0, 30 * Scale - Abs(actualMove) * (Scale \div 20))

\* C19: for every action, move and stated confidence, the accuracy computed
\* at validation is the reference score of the action and the move; a BUY
\* with reference price 100 resolving at 101.5 scores 85.
C19_AccuracyIsReference ==
    fout.kind = "accuracy"
    => fout.decision.accuracy = ReferenceAccuracy(fin.signal, fout.decision.actualMove)

C15_ReturnedConfidenceInRange ==
    (orchestration.pc = "done" /\ orchestration.outcome.status = "resolved")
    => /\ orchestration.outcome.value.confidence >= 20
       /\ orchestration.outcome.value.confidence <= 95

\* C16: runAnalysis eventually returns a Decision, also when an analyzer
\* never responds.
C16_EventuallyReturns == <>(orchestration.pc = "done")

\* C11: two runs of the full cycle that start from the same modelWeights and
\* take the same analyzer inputs and the same prices have the same
\* modelWeights after every cycle.
C11_SameInputsSameWeights ==
    replay.first.modelWeights = replay.second.modelWeights

\* C21: the sample count of each of the four confidence-calibration buckets
\* that getPerformanceStats reports never decreases from one state to the
\* next: no operation, buffer eviction included, removes samples.
C21_CalibrationCountsNeverDecrease ==
    [][\A r \in ConfidenceRanges :
          getPerformanceStats(predictions', pred', modelWeights').confidenceCalibration[r]
          >= getPerformanceStats(predictions, pred, modelWeights).confidenceCalibration[r]]_vars

\* the four weights enhancedCombineAnalysis blends with, after "Normalize
\* weights" and "Market condition adjustments": numerators over
\* (sum of the raw weights) * 10000
WeightsUsed(traditional, optimalWeights) ==
    LET w == RawWeights(optimalWeights)
        f == RegimeFactor(traditional.volatilityHigh, traditional.hour)
    IN  [k \in {"ai", "traditional", "historical", "micro"} |-> w[k] * f[k]]

\* C22: in every fusion the weights actually used to blend the opinions,
\* after the adjustments for high volatility and for the opening/closing
\* session, are non-negative and sum to 1.
C22_UsedWeightsSumToOne ==
    fout.kind = "enhanced" =>
        LET w    == RawWeights(fin.weights)
            used == WeightsUsed(fin.traditional, fin.weights)
        IN  /\ \A k \in DOMAIN used : used[k] >= 0
            /\ used.ai + used.traditional + used.historical + used.micro
               = (w.ai + w.traditional + w.historical + w.micro) * 10000

Matched == findSimilarConditions(fin.historicalData, fin.currentData)

\* C24: analyzeHistoricalPatterns always returns accuracy, similarCount and
\* confidence; when no sample matches, or the analysis fails, the result is
\* the neutral default: accuracy 50, confidence multiplier 1.0 and pattern
\* INSUFFICIENT_DATA.
C24_NeutralDefaultWithoutMatches ==
    fout.kind = "historical" =>
        /\ {"accuracy", "similarCount", "confidence"} \subseteq DOMAIN fout.decision
        /\ fout.decision.similarCount = 0 =>
              /\ fout.decision.accuracy = 50
              /\ fout.decision.confidenceAdjustment = 10
              /\ fout.decision.dominantPattern = "INSUFFICIENT_DATA"

\* the position of the first sample with the given signal, 0 for none
FirstSeen(similarConditions, signal) ==
    IF SignalCount(similarConditions, signal) = 0 THEN 0
    ELSE CHOOSE k \in 1..Len(similarConditions) :
            /\ similarConditions[k].signal = signal
            /\ \A j \in 1..(k - 1) : similarConditions[j].signal # signal

\* the signals with the highest count among the matched samples
Leaders(similarConditions) ==
    {s \in Signals : \A t \in Signals :
        SignalCount(similarConditions, s) >= SignalCount(similarConditions, t)}

PatternOf(signal) ==
    IF signal = "BUY" THEN "BULLISH_PATTERN"
    ELSE IF signal = "SELL" THEN "BEARISH_PATTERN" ELSE "NEUTRAL_PATTERN"

\* C25: identifyDominantPattern returns the majority action among the
\* matched samples and, when several actions tie for the highest count, the
\* tied action whose first occurrence comes earliest (first-seen wins).
C25_FirstSeenWinsTies ==
    (fout.kind = "historical" /\ fin.currentData.defined /\ Len(Matched) > 0) =>
        \E s \in Leaders(Matched) :
            /\ \A t \in Leaders(Matched) :
                  FirstSeen(Matched, s) <= FirstSeen(Matched, t)
            /\ fout.decision.dominantPattern = PatternOf(s)

\* C26: every entry appended to results, and every weight adjustment, is
\* for a prediction that is in the predictions buffer at the moment of the
\* append, also when trackPrediction evicted it while its validation was
\* awaiting the market price.
C26_AppendOnlyForBuffered ==
    [][\A i \in Ids :
          (appended'[i] # appended[i] \/ adjustRuns'[i] # adjustRuns[i])
              => i \in Range(predictions)]_vars

Settled ==
    /\ modelWeights.ai <= modelWeights.technical
    /\ \A i \in 1..(nextId - 1) :
          pred[i].agentData.aiWeight > pred[i].agentData.traditionalWeight
              => outcomeWrites[i] > 0

\* C28: an outcome whose prediction recorded aiWeight <= traditionalWeight
\* leaves the weights unchanged whatever its accuracy; hence once
\* modelWeights.ai <= modelWeights.technical and every prediction
\* snapshotted earlier has been resolved, the weights never change again.
C28_WeightsFrozenOnceSettled ==
    [][/\ \A i \in Ids :
             (adjustRuns'[i] # adjustRuns[i]
              /\ pred[i].agentData.aiWeight <= pred[i].agentData.traditionalWeight)
                 => modelWeights' = modelWeights
       /\ Settled => modelWeights' = modelWeights]_vars

\* the voting agents of an aggregateSignals call that signalled x
Signalling(args, x) == {a \in Voters(args) : args[a].signal = x}

\* C29: aggregateSignals returns BUY (SELL) only if at least two of the
\* three voting agents signalled BUY (SELL); with a single voting agent it
\* returns HOLD; and the BUY and SELL scores never both exceed the 0.4
\* threshold, for all confidences in [0,100].
C29_DirectionNeedsTwoVoters ==
    fout.kind = "aggregate" =>
        /\ fout.decision.action = "BUY" => Cardinality(Signalling(fin, "BUY")) >= 2
        /\ fout.decision.action = "SELL" => Cardinality(Signalling(fin, "SELL")) >= 2
        /\ Cardinality(Voters(fin)) = 1 => fout.decision.action = "HOLD"
        /\ ~(SumScores(fin, "BUY", 4) > 4000 /\ SumScores(fin, "SELL", 4) > 4000)

\* two agents carry BUY against a third that signals SELL at full confidence
C29_Witness ==
    /\ fout.kind = "aggregate"
    /\ fout.decision.action = "BUY"
    /\ Cardinality(Signalling(fin, "BUY")) = 2
    /\ \E a \in Signalling(fin, "SELL") : fin[a].confidence = 100

\* C30: for every suggestion id logged by logTradingSuggestion at most one
\* outcome is ever recorded through recordActualOutcome, across any
\* interleaving of overlapping checkSuggestionOutcomes runs and a
\* concurrent manual recordOutcome for the same id.
C30_AtMostOneOutcome ==
    \A s \in Suggestions : logger.rows[s] <= 1

====
